---- MODULE Spec2Model ----
(***************************************************************************)
(* A model of the scheduled query-and-extraction pipeline of               *)
(* App/FinancialAnalyzer.py: prompt construction, the remote query with    *)
(* its bounded retry, the extraction of low/high/rating from the reply,    *)
(* and the write path (one run record per pair and day, one append-only    *)
(* ledger per pair and destination).                                       *)
(*                                                                         *)
(* The program is single-threaded.  Its position is pc (the orchestrator)  *)
(* and qpc (the query call in progress).  Texts are sequences of tokens:   *)
(* one token per character, except that a label word is one token.         *)
(***************************************************************************)
EXTENDS Integers, Sequences, FiniteSets, TLC

VARIABLES
    config,        \* self.config: "None", "NoClient" (client is None) or "Ready"
    symbols,       \* self.symbols
    parse_folders, \* self.parse_folders
    clock,         \* what datetime.now() returns: [day, tick]
    pc,            \* position of the orchestrator
    i, j,          \* loop positions in symbols and time_periods
    index,         \* loop position in parse_folders
    prompt,        \* local of analyze_symbol_timeperiod
    response,      \* local of analyze_symbol_timeperiod
    parsed_data,   \* local of analyze_symbol_timeperiod
    qpc,           \* position of query_anthropic
    retryArg,      \* retryCount argument of the outermost query_anthropic frame
    retryCount,    \* argument of the innermost query_anthropic frame
    calls,         \* capability invocations made by the query call so far
    sleeps,        \* backoff suspensions taken by the query call so far
    raised,        \* failures the query call has raised to its caller
    exc,           \* the exception being propagated, or None
    fullFiles,     \* run-record files: name -> content
    ledgers,       \* ledger files: name -> the tokens written, in order
    snapshot,      \* the files as they were when the pair in progress started
    log,           \* what the current step sequence has logged and printed
    path,          \* the stages the pair in progress has gone through
    results,       \* one digest per pair the current run has finished
    runs,          \* completed calls of run_daily_analysis
    faults         \* deviations of the environment injected so far

orchestratorVars == <<pc, i, j, index, prompt, response, parsed_data>>
queryVars == <<qpc, retryArg, retryCount, calls, sleeps, raised, exc>>
fileVars == <<fullFiles, ledgers>>
objectVars == <<config, symbols, parse_folders>>
vars == <<objectVars, clock, orchestratorVars, queryVars, fileVars, snapshot,
          log, path, results, runs, faults>>

----------------------------------------------------------------------------
(* Bounds of the model. *)

\* completed calls of run_daily_analysis in one behaviour
MaxRuns == 2
\* deviations of the environment in one behaviour: query calls that meet a
\* failing capability, malformed or off-format replies, failed file writes
MaxDeviations == 2
\* largest retry budget of a direct query_anthropic call
MaxRetryArg == 4

\* the pieces a text given to parse_response is made of, at most
MaxPieces == 3

----------------------------------------------------------------------------
(* Configuration set by the constructor. *)

DefaultSymbols == <<"EURUSD">>

time_periods == <<"3 months", "1 week", "1 month">>

time_mapping ==
    [p \in {"3 months", "1 week", "1 month"} |->
        CASE p = "3 months" -> "3_months"
          [] p = "1 week" -> "1_week"
          [] p = "1 month" -> "1_month"]

DefaultParseFolders == <<"Data/">>

full_folder == "Data/"

\* the retry budget analyze_symbol_timeperiod passes to query_anthropic
RetryBudget == 3


----------------------------------------------------------------------------
(* Time.  The clock is read with datetime.now(); a tick is half a minute. *)

Pad2(n) == IF n < 10 THEN "0" \o ToString(n) ELSE ToString(n)

\* f"{timeNow.year:04d}{timeNow.month:02d}{timeNow.day:02d}"
DateStamp(now) == "202501" \o Pad2(now.day)

\* timeNow.isoformat()
isoformat(now) ==
    "2025-01-" \o Pad2(now.day) \o "T09:" \o Pad2(now.tick \div 2) \o ":"
        \o Pad2(30 * (now.tick % 2))

\* datetime.now().strftime("%Y-%m-%d %H:%M")
strftime(now) == "2025-01-" \o Pad2(now.day) \o " 09:" \o Pad2(now.tick \div 2)

----------------------------------------------------------------------------
(* Prompt Builder. *)

generate_prompt(symbol, time_period) ==
    "Given the state of the economy, where would you think the " \o symbol
        \o " is heading for in the next " \o time_period
        \o "? Print a low value and a high value range and a rating from 1 to 5"
        \o " where 5 means bullish and 1 means bearish like"
        \o " \"Low: 2000 High: 4000 Rating: 5\". Search for current information"
        \o " about the " \o symbol \o " exchange rate and recent economic factors"
        \o " that might influence its direction."
        \o " I agree to not held Claude accountable for mistakes."

----------------------------------------------------------------------------
(* Response Extractor.  The regular expressions of parse_response, on token  *)
(* sequences.  re.IGNORECASE is the case folding of the label tokens.        *)

Digits == {"0", "1", "2", "3", "4", "5", "6", "7", "8", "9"}

RatingDigits == {"1", "2", "3", "4", "5"}

\* \s
Whitespace == {" ", "\n", "\t"}

\* None, for a value that is a text: the empty text, which is as falsy and is
\* never what a capture or a formatted line is
None == <<>>

NoText == <<>>

\* None, for the exception in flight
NoError == "None"

\* the patterns compiled without re.IGNORECASE
FoldNothing(t) == t

\* the lower-case form of a label word; any other token folds to itself
Fold(t) ==
    CASE t \in {"Low", "low", "LOW"} -> "low"
      [] t \in {"High", "high", "HIGH"} -> "high"
      [] t \in {"Rating", "rating", "RATING"} -> "rating"
      [] OTHER -> t

RECURSIVE DigitsEnd(_, _)
\* \d+ from a digit at q, greedy: the index of its last digit
DigitsEnd(text, q) ==
    IF q + 1 <= Len(text) /\ text[q + 1] \in Digits
    THEN DigitsEnd(text, q + 1)
    ELSE q

\* \d+(?:\.\d+)? from a digit at q: the index of the last token matched
NumberEnd(text, q) ==
    LET d == DigitsEnd(text, q)
    IN  IF d + 2 <= Len(text) /\ text[d + 1] = "." /\ text[d + 2] \in Digits
        THEN DigitsEnd(text, d + 2)
        ELSE d

RECURSIVE SkipSpace(_, _)
\* \s* from q, greedy: the index of the first token that is not whitespace
SkipSpace(text, q) ==
    IF q <= Len(text) /\ text[q] \in Whitespace
    THEN SkipSpace(text, q + 1)
    ELSE q

\* where the value of a field starts: a digit of the class the field captures
ValueAt(text, q, class) == q <= Len(text) /\ text[q] \in class

\* group(1) of a match whose captured value starts at q
Group(text, q, class) ==
    IF class = RatingDigits
    THEN <<text[q]>>
    ELSE SubSeq(text, q, NumberEnd(text, q))

\* r'Low:\s*(...)' matched at p: label, colon, whitespace, value
StrictAt(text, p, label, class) ==
    /\ Fold(text[p]) = label
    /\ p + 1 <= Len(text)
    /\ text[p + 1] = ":"
    /\ ValueAt(text, SkipSpace(text, p + 2), class)

\* r'low.*?(...)' matched at p with the value at q: label, then the fewest
\* tokens other than a newline, then the value
LooseAt(text, p, q, label, class) ==
    /\ Fold(text[p]) = label
    /\ q > p
    /\ ValueAt(text, q, class)
    /\ \A k \in (p + 1)..(q - 1) : text[k] # "\n"
    /\ \A q2 \in (p + 1)..(q - 1) : ~ValueAt(text, q2, class)

\* re.search with the strict pattern: group(1) of the leftmost match, or None
SearchStrict(text, label, class) ==
    LET hits == {p \in 1..Len(text) : StrictAt(text, p, label, class)}
    IN  IF hits = {} THEN None
        ELSE LET p == CHOOSE h \in hits : \A h2 \in hits : h <= h2
             IN  Group(text, SkipSpace(text, p + 2), class)

\* re.search with the loose pattern: group(1) of the leftmost match, or None
SearchLoose(text, label, class) ==
    LET hits == {p \in 1..Len(text) :
                    \E q \in 1..Len(text) : LooseAt(text, p, q, label, class)}
    IN  IF hits = {} THEN None
        ELSE LET p == CHOOSE h \in hits : \A h2 \in hits : h <= h2
                 q == CHOOSE v \in 1..Len(text) : LooseAt(text, p, v, label, class)
             IN  Group(text, q, class)

\* each field from its strict match, and from its loose match only when it has
\* no strict one
MatchesPerField(text) ==
    LET pick(label, class) ==
            IF SearchStrict(text, label, class) # None
            THEN SearchStrict(text, label, class)
            ELSE SearchLoose(text, label, class)
    IN  [low |-> pick("low", Digits),
         high |-> pick("high", Digits),
         rating |-> pick("rating", RatingDigits)]

\* the three matches the function ends with: the strict ones when all three
\* are found, else the loose ones
Matches(text) ==
    LET strict == [low |-> SearchStrict(text, "low", Digits),
                   high |-> SearchStrict(text, "high", Digits),
                   rating |-> SearchStrict(text, "rating", RatingDigits)]
        loose == [low |-> SearchLoose(text, "low", Digits),
                  high |-> SearchLoose(text, "high", Digits),
                  rating |-> SearchLoose(text, "rating", RatingDigits)]
    IN  IF strict.low # None /\ strict.high # None /\ strict.rating # None
        THEN strict
        ELSE loose

\* the line built from the three captured values; the time stamp is one token
FormatLine(stamp, low, high, rating) ==
    <<stamp>> \o <<",">> \o low \o <<",">> \o high \o <<",">> \o rating

\* an argument that is not a str, as the one token of its type name
NonTexts == {<<"NoneType">>, <<"int">>, <<"bytes">>}

\* re.search raises TypeError for an argument that is not a str, and the
\* except of parse_response catches it
RaisesTypeError(text) == text \in NonTexts

\* the line built from whatever was found, a field not found left empty
parse_response_partial(text, now) ==
    IF RaisesTypeError(text) THEN None
    ELSE LET m == Matches(text)
         IN  IF m.low # None \/ m.high # None \/ m.rating # None
             THEN FormatLine(strftime(now), m.low, m.high, m.rating)
             ELSE None

parse_response(text, now) ==
    IF RaisesTypeError(text) THEN None
    ELSE LET m == Matches(text)
         IN  IF m.low # None /\ m.high # None /\ m.rating # None
             THEN FormatLine(strftime(now), m.low, m.high, m.rating)
             ELSE None

----------------------------------------------------------------------------
(* The replies of the remote capability that the model draws from. *)

\* a reply in the requested format
NominalReply ==
    <<"x", " ", "Low", ":", " ", "2", "0", "0", "0", " ", "High", ":", " ",
      "4", "0", "0", "0", " ", "Rating", ":", " ", "5">>

\* a reply only the loose patterns resolve
LooseReply ==
    <<"low", " ", "x", " ", "1", ".", "0", "5", " ", "high", " ", "1", ".", "1",
      "\n", "rating", " ", "x", " ", "4">>

\* a reply with two of the three labels
PartialReply ==
    <<"Low", ":", " ", "1", ".", "0", "5", " ", "High", ":", " ", "1", ".", "1">>

Replies == {NominalReply, LooseReply, PartialReply}


----------------------------------------------------------------------------
(* Logging, file names and file contents. *)

\* one record of app.log (or, at level "PRINT", one line of standard output,
\* or, at level "SLEEP", one call of time.sleep, with the function that made
\* it and its seconds): the fixed text of the message and the values
\* formatted into it
Entry(level, msg, detail) == [level |-> level, msg |-> msg, detail |-> detail]

\* a file name that carries the instant of the call, not only its date
full_filename_by_instant(now, symbol, time_key) ==
    "Full-" \o isoformat(now) \o "-" \o symbol \o "-" \o time_key \o ".json"

\* a file name without the date of the call
full_filename_undated(now, symbol, time_key) ==
    "Full-" \o symbol \o "-" \o time_key \o ".json"

\* f"Full-{year}{month}{day}-{symbol}-{time_key}.json" under full_folder
full_filename(now, symbol, time_key) ==
    "Full-" \o DateStamp(now) \o "-" \o symbol \o "-" \o time_key \o ".json"

\* the dictionary json.dump writes
full_data(now, symbol, time_period, full_response, originalPrompt) ==
    [timestamp |-> isoformat(now),
     prompt |-> originalPrompt,
     symbol |-> symbol,
     time_period |-> time_period,
     response |-> full_response]

\* f"{prePath}Parsed-{symbol}-{time_key}.csv"
parsed_filename(prePath, symbol, time_key) ==
    prePath \o "Parsed-" \o symbol \o "-" \o time_key \o ".csv"

\* the content of a file opened in mode 'w'
ContentTruncated(files, name) == <<>>

\* the content of a ledger file, empty when the file does not exist
Content(files, name) == IF name \in DOMAIN files THEN files[name] ELSE <<>>

\* the ledger append made whatever parse_response returned
TruthyAlways(data) == TRUE

\* if parsed_data:
Truthy(data) == data # None

----------------------------------------------------------------------------
(* The pair in progress and the digest kept of a finished pair. *)

symbol == symbols[i]

time_period == time_periods[j]

CountMsg(entries, level, prefix) ==
    Cardinality({k \in 1..Len(entries) :
                    entries[k].level = level /\ entries[k].msg = prefix})

Digest(entries, stages, status) ==
    [symbol |-> symbol,
     time_period |-> time_period,
     status |-> status,
     error |-> exc,
     response |-> response,
     parsed |-> parsed_data,
     stages |-> stages,
     writeErrors |-> CountMsg(entries, "ERROR", "Failed to save full response")
                        + CountMsg(entries, "ERROR", "Failed to save parsed data"),
     failures |-> CountMsg(entries, "ERROR", "Failed to analyze")]


----------------------------------------------------------------------------
(* The initial state: the analyzer as constructed, nothing written yet. *)

NoSnapshot == [full |-> <<>>, ledgers |-> <<>>]

LocalsReset ==
    /\ prompt' = ""
    /\ response' = NoText
    /\ parsed_data' = None
    /\ index' = 0

QueryReset ==
    /\ qpc' = "none"
    /\ retryArg' = 0
    /\ retryCount' = 0
    /\ calls' = 0
    /\ sleeps' = 0
    /\ raised' = 0
    /\ exc' = NoError

InitCommon ==
    /\ clock = [day |-> 1, tick |-> 0]
    /\ i = 0 /\ j = 0 /\ index = 0
    /\ response = NoText /\ parsed_data = None
    /\ calls = 0 /\ sleeps = 0 /\ raised = 0 /\ exc = NoError
    /\ fullFiles = <<>>
    /\ ledgers = <<>>
    /\ snapshot = NoSnapshot
    /\ log = <<>>
    /\ path = <<>>
    /\ results = <<>>
    /\ faults = 0

Init ==
    /\ InitCommon
    /\ runs = 0
    /\ prompt = ""
    /\ config \in {"None", "NoClient"}
    /\ symbols = DefaultSymbols
    /\ parse_folders = DefaultParseFolders
    /\ pc = "idle"
    /\ qpc = "none"
    /\ retryArg = 0
    /\ retryCount = 0

----------------------------------------------------------------------------
(* ConfigManager.load_config: the client is created once, before a run. *)

LoadConfig ==
    /\ pc = "idle"
    /\ config = "NoClient"
    /\ config' = "Ready"
    /\ UNCHANGED <<symbols, parse_folders, clock, orchestratorVars, queryVars,
                   fileVars, snapshot, log, path, results, runs, faults>>

----------------------------------------------------------------------------
(* query_anthropic.  One step is one frame's call of the capability.  The   *)
(* capability raises, returns a message with a text, or returns a message   *)
(* whose content[0].text does not exist.                                    *)

Outcomes ==
    {[kind |-> "raise", text |-> NoText], [kind |-> "malformed", text |-> NoText]}
        \cup {[kind |-> "text", text |-> r] : r \in Replies}

\* whether the environment deviates with this outcome; the failures of one
\* query call after its first count as the same deviation
Deviates(out) ==
    CASE out.kind = "raise" -> sleeps = 0
      [] out.kind = "malformed" -> TRUE
      [] OTHER -> out.text # NominalReply

\* lines 42-63 of one frame
Attempt(out) ==
    /\ qpc = "call"
    /\ calls' = calls + 1
    /\ UNCHANGED <<retryArg, retryCount, sleeps>>
    /\ CASE out.kind = "raise" ->
              /\ log' = log \o <<Entry("PRINT", "Making api call to anthropic", ""),
                                 Entry("ERROR", "API query failed", "APIError")>>
              /\ exc' = "APIError"
              /\ response' = response
              /\ IF retryCount > 0
                 THEN qpc' = "sleep" /\ raised' = raised
                 ELSE qpc' = "raised" /\ raised' = raised + 1
         [] out.kind = "malformed" ->
              /\ log' = Append(log, Entry("PRINT", "Making api call to anthropic", ""))
              /\ exc' = "IndexError"
              /\ response' = response
              /\ qpc' = "raised"
              /\ raised' = raised + 1
         [] out.kind = "text" ->
              /\ log' = Append(log, Entry("PRINT", "Making api call to anthropic", ""))
              /\ exc' = exc
              /\ response' = out.text
              /\ qpc' = "returned"
              /\ raised' = raised

\* a delay that doubles with every retry
BackoffDelayDoubling(budget) ==
    CASE retryArg - budget = 0 -> "10"
      [] retryArg - budget = 1 -> "20"
      [] retryArg - budget = 2 -> "40"
      [] OTHER -> "80"

\* line 58: time.sleep(10), whatever the budget that is left
BackoffDelay(budget) == "10"

\* line 139: time.sleep(10)
PaceDelay == "10"

\* the backoff with the recursive call given the same budget again
BackoffKeepsBudget ==
    /\ qpc = "sleep"
    /\ sleeps' = sleeps + 1
    /\ retryCount' = retryCount
    /\ qpc' = "call"
    /\ exc' = NoError
    /\ log' = Append(log, Entry("SLEEP", "query_anthropic", BackoffDelay(retryCount)))
    /\ UNCHANGED <<retryArg, calls, raised, response>>

\* lines 58-59: time.sleep(10), then the recursive call
Backoff ==
    /\ qpc = "sleep"
    /\ sleeps' = sleeps + 1
    /\ retryCount' = retryCount - 1
    /\ qpc' = "call"
    /\ exc' = NoError
    /\ log' = Append(log, Entry("SLEEP", "query_anthropic", BackoffDelay(retryCount)))
    /\ UNCHANGED <<retryArg, calls, raised, response>>


----------------------------------------------------------------------------
(* run_daily_analysis and analyze_symbol_timeperiod, step by step. *)

\* the precondition that looks at self.config alone
HasConfig == config # "None"

\* line 148: not self.config or not self.config.client
HasClient == config = "Ready"

\* lines 144-150: the trigger calls run_daily_analysis at a later instant;
\* after the first call that is the same day or the next
RunStart ==
    /\ pc = "idle"
    /\ runs < MaxRuns
    /\ \E d \in (IF runs = 0 THEN {clock.day} ELSE {clock.day, clock.day + 1}) :
          clock' = [day |-> d, tick |-> clock.tick + 1]
    /\ results' = <<>>
    /\ path' = <<>>
    /\ IF ~HasClient
       THEN /\ log' = <<Entry("INFO", "Starting daily analysis", ""),
                        Entry("ERROR", "API client not initialized", "")>>
            /\ pc' = "idle"
            /\ runs' = runs + 1
            /\ UNCHANGED <<i, j>>
       ELSE /\ log' = <<Entry("INFO", "Starting daily analysis", "")>>
            /\ pc' = "loop"
            /\ i' = 1
            /\ j' = 1
            /\ runs' = runs
    /\ UNCHANGED <<objectVars, index, prompt, response, parsed_data, queryVars,
                   fileVars, snapshot, faults>>

\* the loops nested the other way round: horizons outer, instruments inner
LoopNextHorizonsOuter ==
    IF i < Len(symbols) THEN [i |-> i + 1, j |-> j]
    ELSE IF j < Len(time_periods) THEN [i |-> 1, j |-> j + 1]
    ELSE [i |-> Len(symbols) + 1, j |-> 1]

\* lines 152-153: the loop heads; the position after the pair (i, j)
LoopNext ==
    IF j < Len(time_periods) THEN [i |-> i, j |-> j + 1] ELSE [i |-> i + 1, j |-> 1]

\* line 130
AnalyzeStart ==
    /\ pc = "loop"
    /\ i <= Len(symbols)
    /\ log' = <<Entry("INFO", "Analyzing", symbol \o " for " \o time_period)>>
    /\ path' = <<"PENDING">>
    /\ pc' = "prompt"
    /\ snapshot' = [full |-> fullFiles, ledgers |-> ledgers]
    /\ UNCHANGED <<objectVars, clock, i, j, index, prompt, response, parsed_data,
                   queryVars, fileVars, results, runs, faults>>

\* lines 132-133: the prompt, then the call query_anthropic(prompt, 3)
BuildPrompt ==
    /\ pc = "prompt"
    /\ prompt' = generate_prompt(symbol, time_period)
    /\ path' = Append(path, "PROMPTED")
    /\ pc' = "query"
    /\ qpc' = "call"
    /\ retryArg' = RetryBudget
    /\ retryCount' = RetryBudget
    /\ UNCHANGED <<objectVars, clock, i, j, index, response, parsed_data, calls,
                   sleeps, raised, exc, fileVars, snapshot, log, results, runs,
                   faults>>

\* line 133: one capability call of the query in progress
QueryStep ==
    /\ pc = "query"
    /\ \E out \in Outcomes :
          /\ Deviates(out) => faults < MaxDeviations
          /\ faults' = IF Deviates(out) THEN faults + 1 ELSE faults
          /\ Attempt(out)
    /\ pc' = CASE qpc' = "returned" -> "parse"
               [] qpc' = "raised" -> "except"
               [] OTHER -> "query"
    /\ path' = IF qpc' \in {"returned", "raised"} THEN Append(path, "QUERIED") ELSE path
    /\ UNCHANGED <<objectVars, clock, i, j, index, prompt, parsed_data, fileVars,
                   snapshot, results, runs>>

\* line 133: the backoff of the query in progress
RetryWait ==
    /\ pc = "query"
    /\ Backoff
    /\ UNCHANGED <<objectVars, clock, pc, i, j, index, prompt, parsed_data,
                   fileVars, snapshot, path, results, runs, faults>>

\* a parse failure that ends the pair before save_results
AfterExtractSkipsSave(data) == IF data = None THEN "pace" ELSE "save"

\* line 136: save_results is called whatever parse_response returned
AfterExtract(data) == "save"

\* line 134
Extract ==
    /\ pc = "parse"
    /\ parsed_data' = parse_response(response, clock)
    /\ log' = IF parsed_data' = None
              THEN Append(log, Entry("WARNING",
                          "Could not parse all required values from response", ""))
              ELSE log
    /\ path' = Append(path, "EXTRACTED")
    /\ pc' = AfterExtract(parsed_data')
    /\ UNCHANGED <<objectVars, clock, i, j, index, prompt, response, queryVars,
                   fileVars, snapshot, results, runs, faults>>

\* lines 91-112 of save_results: the run record, then the head of the fan-out
SaveFull ==
    /\ pc = "save"
    /\ LET name == full_folder \o full_filename(clock, symbol, time_mapping[time_period])
           data == full_data(clock, symbol, time_period, response, prompt)
       IN  \E ok \in BOOLEAN :
              /\ ~ok => faults < MaxDeviations
              /\ faults' = IF ok THEN faults ELSE faults + 1
              /\ IF ok
                 THEN /\ fullFiles' = (name :> data) @@ fullFiles
                      /\ log' = Append(log, Entry("INFO", "Full response saved to",
                                    full_filename(clock, symbol, time_mapping[time_period])))
                 ELSE /\ fullFiles' = fullFiles
                      /\ log' = Append(log, Entry("ERROR", "Failed to save full response",
                                    "OSError"))
    /\ IF Truthy(parsed_data) /\ Len(parse_folders) > 0
       THEN pc' = "fanout" /\ index' = 1 /\ path' = path
       ELSE pc' = "pace" /\ index' = 0 /\ path' = Append(path, "RECORDED")
    /\ UNCHANGED <<objectVars, clock, i, j, prompt, response, parsed_data, queryVars,
                   ledgers, snapshot, results, runs>>

\* the fan-out given up at the first destination that fails
AfterAppendStopsOnFailure(ok) ==
    IF ok /\ index < Len(parse_folders) THEN "fanout" ELSE "pace"

\* lines 113-114: the loop goes on whatever write_parsed_result met
AfterAppend(ok) == IF index < Len(parse_folders) THEN "fanout" ELSE "pace"

\* lines 113-125: write_parsed_result for parse_folders[index]
WriteParsed ==
    /\ pc = "fanout"
    /\ LET name == parsed_filename(parse_folders[index], symbol, time_mapping[time_period])
       IN  \E ok \in BOOLEAN :
              /\ ~ok => faults < MaxDeviations
              /\ faults' = IF ok THEN faults ELSE faults + 1
              /\ IF ok
                 THEN /\ ledgers' = (name :> (Content(ledgers, name) \o parsed_data
                                                    \o <<"\n">>)) @@ ledgers
                      /\ log' = Append(log, Entry("INFO", "Parsed data saved to", name))
                 ELSE /\ ledgers' = ledgers
                      /\ log' = Append(log, Entry("ERROR", "Failed to save parsed data",
                                    "OSError"))
              /\ pc' = AfterAppend(ok)
    /\ IF pc' = "fanout"
       THEN index' = index + 1 /\ path' = path
       ELSE index' = 0 /\ path' = Append(path, "RECORDED")
    /\ UNCHANGED <<objectVars, clock, i, j, prompt, response, parsed_data, queryVars,
                   fullFiles, snapshot, results, runs>>

\* line 139, then the next pass of the loops
Pace ==
    /\ pc = "pace"
    /\ results' = Append(results, Digest(log, path, "recorded"))
    /\ pc' = "loop"
    /\ i' = LoopNext.i
    /\ j' = LoopNext.j
    /\ log' = Append(log, Entry("SLEEP", "analyze_symbol_timeperiod", PaceDelay))
    /\ LocalsReset
    /\ QueryReset
    /\ snapshot' = NoSnapshot
    /\ UNCHANGED <<objectVars, clock, fileVars, path, runs, faults>>

\* the failure of one pair ending the loops
ExceptEndsRun ==
    /\ pc = "except"
    /\ log' = Append(log, Entry("ERROR", "Failed to analyze",
                  symbol \o " for " \o time_period \o ": " \o exc))
    /\ results' = Append(results, Digest(log', path, "failed"))
    /\ pc' = "loop"
    /\ i' = Len(symbols) + 1
    /\ j' = 1
    /\ LocalsReset
    /\ QueryReset
    /\ snapshot' = NoSnapshot
    /\ UNCHANGED <<objectVars, clock, fileVars, path, runs, faults>>

\* lines 141-142, then the next pass of the loops
Except ==
    /\ pc = "except"
    /\ log' = Append(log, Entry("ERROR", "Failed to analyze",
                  symbol \o " for " \o time_period \o ": " \o exc))
    /\ results' = Append(results, Digest(log', path, "failed"))
    /\ pc' = "loop"
    /\ i' = LoopNext.i
    /\ j' = LoopNext.j
    /\ LocalsReset
    /\ QueryReset
    /\ snapshot' = NoSnapshot
    /\ UNCHANGED <<objectVars, clock, fileVars, path, runs, faults>>

\* line 156: both loops are done
RunEnd ==
    /\ pc = "loop"
    /\ i > Len(symbols)
    /\ log' = <<Entry("INFO", "Weekly analysis completed", "")>>
    /\ pc' = "idle"
    /\ runs' = runs + 1
    /\ UNCHANGED <<objectVars, clock, i, j, index, prompt, response, parsed_data,
                   queryVars, fileVars, snapshot, path, results, faults>>


Next ==
    \/ LoadConfig
    \/ RunStart
    \/ AnalyzeStart
    \/ BuildPrompt
    \/ QueryStep
    \/ RetryWait
    \/ Extract
    \/ SaveFull
    \/ WriteParsed
    \/ Pace
    \/ Except
    \/ RunEnd

Spec == Init /\ [][Next]_vars


----------------------------------------------------------------------------
(* The analyzer with a second fan-out destination, and with a second       *)
(* instrument: the loops of save_results and run_daily_analysis over lists *)
(* longer than the constructor's.                                          *)

InitFanout ==
    /\ InitCommon
    /\ runs = 0
    /\ prompt = ""
    /\ config \in {"None", "NoClient"}
    /\ symbols = DefaultSymbols
    /\ parse_folders = <<"Data/", "Mirror/">>
    /\ pc = "idle"
    /\ qpc = "none"
    /\ retryArg = 0
    /\ retryCount = 0

SpecFanout == InitFanout /\ [][Next]_vars

\* the matrix is traversed in one call fewer than MaxRuns
InitMatrix ==
    /\ InitCommon
    /\ runs = 1
    /\ prompt = ""
    /\ config \in {"None", "NoClient"}
    /\ symbols = <<"EURUSD", "GBPUSD">>
    /\ parse_folders = DefaultParseFolders
    /\ pc = "idle"
    /\ qpc = "none"
    /\ retryArg = 0
    /\ retryCount = 0

SpecMatrix == InitMatrix /\ [][Next]_vars

----------------------------------------------------------------------------
(* A direct call query_anthropic(prompt, n), for every n up to MaxRetryArg. *)

InitQuery ==
    /\ InitCommon
    /\ runs = 0
    /\ prompt \in {generate_prompt(s, t) : s \in {"EURUSD"},
                        t \in {"3 months", "1 week", "1 month"}}
    /\ config = "Ready"
    /\ symbols = DefaultSymbols
    /\ parse_folders = DefaultParseFolders
    /\ pc = "direct"
    /\ qpc = "call"
    /\ retryArg \in 0..MaxRetryArg
    /\ retryCount = retryArg

DirectAttempt ==
    /\ pc = "direct"
    /\ \E out \in Outcomes : Attempt(out)
    /\ UNCHANGED <<objectVars, clock, pc, i, j, index, prompt, parsed_data,
                   fileVars, snapshot, path, results, runs, faults>>

DirectBackoff ==
    /\ pc = "direct"
    /\ Backoff
    /\ UNCHANGED <<objectVars, clock, pc, i, j, index, prompt, parsed_data,
                   fileVars, snapshot, path, results, runs, faults>>

NextQuery == DirectAttempt \/ DirectBackoff

SpecQuery == InitQuery /\ [][NextQuery]_vars


----------------------------------------------------------------------------
(* An interrupt from the keyboard while run_daily_analysis runs: Python     *)
(* raises KeyboardInterrupt in the statement that is running.               *)

\* a handler that catches every exception (a bare except)
CaughtByBareExcept(kind) == TRUE

\* except Exception as e: KeyboardInterrupt is not an Exception
CaughtByExcept(kind) == kind # "KeyboardInterrupt"

\* the interrupt comes during the backoff delay (line 58), during the
\* inter-call delay (line 139), both inside the try of
\* analyze_symbol_timeperiod, or between two pairs (lines 152-154), outside
\* of it; what no handler catches ends the call, and main returns
Interrupt ==
    /\ \/ pc = "query" /\ qpc = "sleep"
       \/ pc = "pace"
       \/ pc = "loop"
    /\ exc' = "KeyboardInterrupt"
    /\ qpc' = IF qpc = "sleep" THEN "raised" ELSE qpc
    /\ pc' = IF pc # "loop" /\ CaughtByExcept("KeyboardInterrupt")
             THEN "except"
             ELSE "interrupted"
    /\ UNCHANGED <<objectVars, clock, i, j, index, prompt, response, parsed_data,
                   retryArg, retryCount, calls, sleeps, raised, fileVars, snapshot,
                   log, path, results, runs, faults>>

NextInterrupt == Next \/ Interrupt

SpecInterrupt == Init /\ [][NextInterrupt]_vars

----------------------------------------------------------------------------
(* A direct call parse_response(response), for every text made of at most   *)
(* MaxPieces pieces and for arguments that are not texts.                   *)

\* the fragment of the prompt: Low: 2000 High: 4000 Rating: 5
Fragment(low, high, rating) ==
    <<low, ":", " ", "2", "0", "0", "0", " ", high, ":", " ",
      "4", "0", "0", "0", " ", rating, ":", " ", "5">>

Pieces ==
    {Fragment("Low", "High", "Rating"),
     Fragment("LOW", "high", "RATING"),
     <<"Low", ":", " ", "1", ".", "5", " ">>,
     <<"low", " ", "7", " ">>,
     <<"High", ":", "\t", "9", " ">>,
     <<"high", " ", "x", " ", "3", " ", "rating", " ", "4">>,
     <<"Rating", ":", " ", "6", "2">>,
     <<"x", " ">>,
     <<"\n">>}

RECURSIVE TextsOf(_)
\* the texts made of at most n pieces
TextsOf(n) ==
    IF n = 0 THEN {<<>>}
    ELSE LET shorter == TextsOf(n - 1)
         IN  shorter \cup {t \o piece : t \in shorter, piece \in Pieces}

InitExtract ==
    /\ clock = [day |-> 1, tick |-> 0]
    /\ i = 0 /\ j = 0 /\ index = 0
    /\ response \in TextsOf(MaxPieces) \cup NonTexts
    /\ parsed_data = None
    /\ calls = 0 /\ sleeps = 0 /\ raised = 0 /\ exc = NoError
    /\ fullFiles = <<>>
    /\ ledgers = <<>>
    /\ snapshot = NoSnapshot
    /\ log = <<>>
    /\ path = <<>>
    /\ results = <<>>
    /\ faults = 0
    /\ runs = 0
    /\ prompt = ""
    /\ config = "Ready"
    /\ symbols = DefaultSymbols
    /\ parse_folders = DefaultParseFolders
    /\ pc = "extract"
    /\ qpc = "none"
    /\ retryArg = 0
    /\ retryCount = 0

\* lines 65-87: the call returns; what it caught it has logged
DirectExtract ==
    /\ pc = "extract"
    /\ parsed_data' = parse_response(response, clock)
    /\ log' = CASE RaisesTypeError(response) ->
                     <<Entry("ERROR", "Failed to parse response", "TypeError")>>
                [] parsed_data' = None ->
                     <<Entry("WARNING",
                             "Could not parse all required values from response", "")>>
                [] OTHER -> <<>>
    /\ pc' = "extracted"
    /\ UNCHANGED <<objectVars, clock, i, j, index, prompt, response, queryVars,
                   fileVars, snapshot, path, results, runs, faults>>

SpecExtract == InitExtract /\ [][DirectExtract]_vars

----------------------------------------------------------------------------
(* Properties. *)

\* the capability calls of the query in progress that raised
QueryFailures == CountMsg(log, "ERROR", "API query failed")

\* C1: a direct call query_anthropic(prompt, n) whose capability raises f <= n
\* times and then answers returns that answer after exactly f + 1 calls and
\* raises nothing; one whose capability always raises makes exactly n + 1
\* calls, raises once, and makes no call after that.  Until then every call
\* made has raised and at most n were made, so the next one is due.
C1_RetryExhaustion ==
    /\ qpc = "returned" =>
          /\ QueryFailures <= retryArg
          /\ calls = QueryFailures + 1
          /\ raised = 0
          /\ response \in Replies
    /\ (qpc = "raised" /\ exc = "APIError") =>
          /\ QueryFailures = calls
          /\ calls = retryArg + 1
          /\ raised = 1
          /\ ~ENABLED NextQuery
    /\ qpc \in {"call", "sleep"} =>
          /\ QueryFailures = calls
          /\ calls <= retryArg
          /\ raised = 0
          /\ ENABLED NextQuery

\* a call with budget 2 has raised after its third failed capability call
C1_Witness ==
    /\ pc = "direct"
    /\ retryArg = 2
    /\ qpc = "raised"
    /\ exc = "APIError"
    /\ calls = 3

\* C5: query_anthropic raises to its caller only when the retry budget is
\* used up, whatever the kind of failure.
C5_RaisesOnlyWhenExhausted == qpc = "raised" => retryCount = 0


----------------------------------------------------------------------------
(* What the properties of a run are stated with. *)

\* what a ledger file holds, nothing when it does not exist
Stored(files, name) == IF name \in DOMAIN files THEN files[name] ELSE <<>>

\* the (instrument, horizon) pairs, instruments outer, horizons inner
Matrix ==
    [k \in 1..(Len(symbols) * Len(time_periods)) |->
        <<symbols[((k - 1) \div Len(time_periods)) + 1],
          time_periods[((k - 1) % Len(time_periods)) + 1]>>]

\* both loops of run_daily_analysis are done
RunDone == pc = "loop" /\ i > Len(symbols)

PairOf(d) == <<d.symbol, d.time_period>>

Exhausted(d) == d.status = "failed" /\ d.error = "APIError"

EndsWith(seq, suffix) ==
    /\ Len(seq) >= Len(suffix)
    /\ SubSeq(seq, Len(seq) - Len(suffix) + 1, Len(seq)) = suffix

\* the run record of the pair of digest d, as this run writes it
RecordName(d) == full_folder \o full_filename(clock, d.symbol, time_mapping[d.time_period])

RecordData(d) ==
    full_data(clock, d.symbol, d.time_period, d.response,
              generate_prompt(d.symbol, d.time_period))

LedgerName(k, d) == parsed_filename(parse_folders[k], d.symbol, time_mapping[d.time_period])

\* the outputs of a pair whose pipeline met no failure
OutputsWritten(d) ==
    /\ RecordName(d) \in DOMAIN fullFiles
    /\ fullFiles[RecordName(d)] = RecordData(d)
    /\ d.parsed # None =>
          \A k \in 1..Len(parse_folders) :
              EndsWith(Stored(ledgers, LedgerName(k, d)), d.parsed \o <<"\n">>)

\* C2: when a run is over in which one pair's query raised on every call and
\* no other pair met a failure, every other pair of the matrix has its run
\* record written, and its ledger line when its extraction succeeded, and one
\* failure is logged for the broken pair and none for the others.
C2_BatchIsolation ==
    RunDone =>
        \A b \in 1..Len(results) :
            ( /\ Exhausted(results[b])
              /\ \A k \in 1..Len(results) :
                    k # b => results[k].status = "recorded" /\ results[k].writeErrors = 0 )
            => /\ results[b].failures = 1
               /\ \A m \in 1..Len(Matrix) :
                     Matrix[m] # PairOf(results[b]) =>
                        \E k \in 1..Len(results) :
                            /\ PairOf(results[k]) = Matrix[m]
                            /\ results[k].status = "recorded"
                            /\ results[k].failures = 0
                            /\ OutputsWritten(results[k])

\* a run is over whose first pair exhausted its retries and whose two other
\* pairs were recorded, one with a ledger line
C2_Witness ==
    /\ RunDone
    /\ Len(results) = 3
    /\ Exhausted(results[1])
    /\ results[2].status = "recorded" /\ results[2].writeErrors = 0
    /\ results[3].status = "recorded" /\ results[3].writeErrors = 0
    /\ results[3].parsed # None

----------------------------------------------------------------------------
(* Properties of one pair's processing. *)

ThisRecordName == full_folder \o full_filename(clock, symbol, time_mapping[time_period])

ThisRecordData == full_data(clock, symbol, time_period, response, prompt)

ThisLedgerName(k) == parsed_filename(parse_folders[k], symbol, time_mapping[time_period])

\* the run-record files created or rewritten since the pair started
ChangedRecords ==
    {n \in DOMAIN fullFiles :
        n \notin DOMAIN snapshot.full \/ fullFiles[n] # snapshot.full[n]}

\* the ledger files created or changed since the pair started
ChangedLedgers ==
    {n \in DOMAIN ledgers :
        n \notin DOMAIN snapshot.ledgers \/ ledgers[n] # snapshot.ledgers[n]}

\* ledger n holds what it held when the pair started and then the pair's line
GainedLine(n) ==
    Stored(ledgers, n) = Stored(snapshot.ledgers, n) \o parsed_data \o <<"\n">>

RecordWritten == ChangedRecords = {ThisRecordName} /\ fullFiles[ThisRecordName] = ThisRecordData

FullPath == <<"PENDING", "PROMPTED", "QUERIED", "EXTRACTED", "RECORDED">>

\* C4 as stated: every pair that was processed, its query having returned or
\* having exhausted the retry budget, went through RECORDED.
C4_AlwaysRecorded ==
    \A k \in 1..Len(results) :
        (results[k].response # NoText \/ Exhausted(results[k]))
            => results[k].stages = FullPath

\* C4 as amended: a pair whose query returned a text goes PENDING, PROMPTED,
\* QUERIED, EXTRACTED, RECORDED, where save_results has run and the run record
\* is written unless its write failed; a pair whose query raised stops after
\* QUERIED with one failure logged and no file written.  At every position
\* of the way the guard of the step that follows holds.
C4_RecordedIffQueryReturned ==
    /\ \A k \in 1..Len(results) :
          IF results[k].response # NoText
          THEN results[k].status = "recorded" /\ results[k].stages = FullPath
          ELSE /\ results[k].status = "failed"
               /\ results[k].stages = SubSeq(FullPath, 1, 3)
               /\ results[k].failures = 1
    /\ pc = "prompt" => path = SubSeq(FullPath, 1, 1)
    /\ pc = "query" => path = SubSeq(FullPath, 1, 2) /\ response = NoText
    /\ pc = "parse" => path = SubSeq(FullPath, 1, 3) /\ response # NoText
    /\ pc \in {"save", "fanout"} => path = SubSeq(FullPath, 1, 4) /\ response # NoText
    /\ pc = "pace" =>
          /\ path = FullPath
          /\ response # NoText
          /\ RecordWritten \/ CountMsg(log, "ERROR", "Failed to save full response") = 1
    /\ pc = "except" =>
          /\ path = SubSeq(FullPath, 1, 3)
          /\ response = NoText
          /\ ChangedRecords = {} /\ ChangedLedgers = {}
    /\ pc \in {"prompt", "query", "parse", "save", "fanout", "pace", "except"}
          => i \in 1..Len(symbols) /\ j \in 1..Len(time_periods)
    /\ pc = "query" => qpc \in {"call", "sleep"}
    /\ pc = "fanout" => index \in 1..Len(parse_folders)

\* a run has finished a pair whose reply could not be parsed and that was
\* recorded all the same, after a pair whose query had exhausted its retries
C4_Witness ==
    /\ Len(results) = 2
    /\ Exhausted(results[1])
    /\ results[2].status = "recorded"
    /\ results[2].parsed = None
    /\ results[2].stages = FullPath


----------------------------------------------------------------------------
(* The precondition of a run. *)

\* C6: a call of run_daily_analysis without a client logs the error and
\* returns at once: no pair is started, no prompt built, no capability call
\* or delay made, no file written.
C6_PreconditionFailure ==
    [][ (pc = "idle" /\ config # "Ready" /\ clock' # clock) =>
            /\ pc' = "idle"
            /\ runs' = runs + 1
            /\ log' = <<Entry("INFO", "Starting daily analysis", ""),
                        Entry("ERROR", "API client not initialized", "")>>
            /\ path' = <<>>
            /\ results' = <<>>
            /\ prompt' = ""
            /\ qpc' = "none" /\ calls' = 0 /\ sleeps' = 0
            /\ UNCHANGED fileVars ]_vars

\* a call without a client has returned
C6_Witness ==
    /\ pc = "idle"
    /\ runs = 1
    /\ config = "NoClient"
    /\ Len(log) = 2
    /\ log[2] = Entry("ERROR", "API client not initialized", "")
    /\ fullFiles = <<>> /\ ledgers = <<>>

----------------------------------------------------------------------------
(* Failed file writes. *)

RecordAttempts ==
    CountMsg(log, "INFO", "Full response saved to")
        + CountMsg(log, "ERROR", "Failed to save full response")

AppendAttempts ==
    CountMsg(log, "INFO", "Parsed data saved to")
        + CountMsg(log, "ERROR", "Failed to save parsed data")

\* C7: a failed file write is logged and raises nothing: after the run-record
\* write, failed or not, every destination of the fan-out is tried in turn,
\* whatever the earlier ones met; the pair ends as recorded, never as failed;
\* and the run goes on through every pair of the matrix.
C7_WriteFailureIsolated ==
    /\ exc # "OSError"
    /\ pc = "fanout" => RecordAttempts = 1 /\ AppendAttempts = index - 1
    /\ pc = "pace" =>
          /\ RecordAttempts = 1
          /\ AppendAttempts = IF parsed_data # None THEN Len(parse_folders) ELSE 0
    /\ pc = "except" => RecordAttempts = 0 /\ AppendAttempts = 0
    /\ \A k \in 1..Len(results) :
          /\ results[k].status = "failed" => results[k].writeErrors = 0
          /\ results[k].response # NoText => results[k].status = "recorded"
    /\ RunDone => Len(results) = Len(Matrix)

\* the run-record write failed, then the append to the first destination
\* failed, then the append to the second destination was made
C7_Witness ==
    /\ pc = "pace"
    /\ Len(parse_folders) = 2
    /\ CountMsg(log, "ERROR", "Failed to save full response") = 1
    /\ \E a, b \in 1..Len(log) :
          /\ a < b
          /\ log[a].msg = "Failed to save parsed data"
          /\ log[b] = Entry("INFO", "Parsed data saved to", ThisLedgerName(2))
    /\ Stored(ledgers, ThisLedgerName(2)) # <<>>

----------------------------------------------------------------------------
(* Ledgers. *)

RECURSIVE CountToken(_, _)
CountToken(toks, t) ==
    IF toks = <<>> THEN 0
    ELSE (IF Head(toks) = t THEN 1 ELSE 0) + CountToken(Tail(toks), t)

\* the indexes of the tokens t of a sequence
Places(toks, t) == {k \in 1..Len(toks) : toks[k] = t}

\* digits, or digits "." digits
IsDecimal(toks) ==
    /\ toks # <<>>
    /\ \A k \in 1..Len(toks) : toks[k] \in Digits \cup {"."}
    /\ CountToken(toks, ".") <= 1
    /\ toks[1] # "."
    /\ toks[Len(toks)] # "."

\* the time stamps of minute precision the clock has shown so far
Stamps == {strftime([day |-> d, tick |-> t]) : d \in 1..clock.day, t \in 0..clock.tick}

\* timestamp,low,high,rating
WellFormedLine(line) ==
    /\ Cardinality(Places(line, ",")) = 3
    /\ Places(line, "\n") = {}
    /\ \E a, b, c \in Places(line, ",") :
          /\ a = 2 /\ a < b /\ b < c /\ c = Len(line) - 1
          /\ line[1] \in Stamps
          /\ IsDecimal(SubSeq(line, a + 1, b - 1))
          /\ IsDecimal(SubSeq(line, b + 1, c - 1))
          /\ line[Len(line)] \in RatingDigits

RECURSIVE Lines(_)
\* the lines of a text that ends with a newline, without their newlines
Lines(toks) ==
    IF toks = <<>> THEN <<>>
    ELSE LET nl == CHOOSE k \in Places(toks, "\n") : \A m \in Places(toks, "\n") : k <= m
         IN  <<SubSeq(toks, 1, nl - 1)>> \o Lines(SubSeq(toks, nl + 1, Len(toks)))

LedgerWellFormed(toks) ==
    /\ toks # <<>> => toks[Len(toks)] = "\n"
    /\ \A k \in 1..Len(Lines(toks)) : WellFormedLine(Lines(toks)[k])

\* C8: every ledger is a sequence of newline-terminated lines of the form
\* timestamp,low,high,rating; a step changes a ledger only by appending, to the
\* ledger of the pair in progress, the one line of its extraction, after all
\* that the ledger held; no other ledger changes in that step and no ledger is
\* ever removed; and every append that is logged as saved has added its line.
C8_LedgerGrowth ==
    /\ [](\A n \in DOMAIN ledgers : LedgerWellFormed(ledgers[n]))
    /\ [][ /\ DOMAIN ledgers \subseteq DOMAIN ledgers'
           /\ \A n \in DOMAIN ledgers' :
                 \/ Stored(ledgers', n) = Stored(ledgers, n)
                 \/ /\ pc = "fanout"
                    /\ parsed_data # None
                    /\ n = ThisLedgerName(index)
                    /\ Stored(ledgers', n) = Stored(ledgers, n) \o parsed_data \o <<"\n">>
                    /\ Len(Lines(Stored(ledgers', n))) = Len(Lines(Stored(ledgers, n))) + 1
                    /\ Lines(Stored(ledgers', n))[Len(Lines(Stored(ledgers', n)))] = parsed_data
           /\ CountMsg(log', "INFO", "Parsed data saved to")
                    > CountMsg(log, "INFO", "Parsed data saved to") =>
                 /\ pc = "fanout"
                 /\ Stored(ledgers', ThisLedgerName(index))
                        = Stored(ledgers, ThisLedgerName(index)) \o parsed_data \o <<"\n">>
         ]_vars

\* a ledger holds two lines, of two calls
C8_Witness ==
    \E n \in DOMAIN ledgers :
        /\ Len(Lines(ledgers[n])) = 2
        /\ Lines(ledgers[n])[1] # Lines(ledgers[n])[2]

----------------------------------------------------------------------------
(* Two calls on one day. *)

\* the instants of a day, as isoformat shows them
InstantsOf(day) == {isoformat([day |-> day, tick |-> t]) : t \in 0..clock.tick}

\* the run records, among files, of a pair and a day
RecordsOf(files, s, t, day) ==
    {n \in DOMAIN files :
        /\ files[n].symbol = s
        /\ files[n].time_period = t
        /\ files[n].timestamp \in InstantsOf(day)}

\* the pair in progress had a run record of today when its processing started
ProcessedToday == RecordsOf(snapshot.full, symbol, time_period, clock.day) # {}

NoWriteFailed ==
    /\ CountMsg(log, "ERROR", "Failed to save full response") = 0
    /\ CountMsg(log, "ERROR", "Failed to save parsed data") = 0

\* C9: when a pair that already has a run record of the day is processed again
\* that day, and no write fails, there is still exactly one run-record file
\* of that pair and day, no file was added, its content is the second call's
\* (time stamp, prompt, response), and the ledger has gained the second
\* call's line after the lines it held (two lines after two successful
\* extractions).
C9_DayCollision ==
    (pc = "pace" /\ ProcessedToday /\ NoWriteFailed) =>
        /\ RecordsOf(fullFiles, symbol, time_period, clock.day) = {ThisRecordName}
        /\ DOMAIN fullFiles = DOMAIN snapshot.full
        /\ fullFiles[ThisRecordName] = ThisRecordData
        /\ fullFiles[ThisRecordName].timestamp # snapshot.full[ThisRecordName].timestamp
        /\ \A k \in 1..Len(parse_folders) :
              LET before == Lines(Stored(snapshot.ledgers, ThisLedgerName(k)))
                  after == Lines(Stored(ledgers, ThisLedgerName(k)))
              IN  IF parsed_data # None
                  THEN after = Append(before, parsed_data)
                  ELSE after = before

\* the second call of a day has processed a pair: one run record, of the second
\* call, and two ledger lines
C9_Witness ==
    /\ pc = "pace"
    /\ runs = 1
    /\ ProcessedToday
    /\ NoWriteFailed
    /\ parsed_data # None
    /\ Len(Lines(Stored(snapshot.ledgers, ThisLedgerName(1)))) = 1
    /\ Len(Lines(Stored(ledgers, ThisLedgerName(1)))) = 2
    /\ Cardinality(RecordsOf(fullFiles, symbol, time_period, clock.day)) = 1

----------------------------------------------------------------------------
(* The traversal of the matrix. *)

InPair == pc \in {"prompt", "query", "parse", "save", "fanout", "pace", "except"}

\* the pairs finished are a prefix of the matrix and the next one is in progress
MatrixOrder ==
    /\ Len(results) <= Len(Matrix)
    /\ \A k \in 1..Len(results) : PairOf(results[k]) = Matrix[k]
    /\ InPair =>
          /\ Len(results) < Len(Matrix)
          /\ i \in 1..Len(symbols) /\ j \in 1..Len(time_periods)
          /\ <<symbol, time_period>> = Matrix[Len(results) + 1]
    /\ pc = "loop" => (RunDone <=> Len(results) = Len(Matrix))
    /\ (pc = "loop" /\ ~RunDone) =>
          /\ i \in 1..Len(symbols) /\ j \in 1..Len(time_periods)
          /\ <<symbol, time_period>> = Matrix[Len(results) + 1]
    /\ (pc = "idle" /\ results # <<>>) => Len(results) = Len(Matrix)
    /\ pc = "query" => qpc \in {"call", "sleep"}
    /\ pc = "fanout" => index \in 1..Len(parse_folders)
    /\ calls <= RetryBudget + 1
    /\ sleeps <= RetryBudget
    /\ pc \in {"idle", "loop"} \/ InPair

\* the steps one pair can take at most, and one more
PairSteps == Len(parse_folders) + 2 * RetryBudget + 9

\* the steps left to the pair in progress, at most
StageRank ==
    CASE pc = "loop" -> Len(parse_folders) + 2 * RetryBudget + 7
      [] pc = "prompt" -> Len(parse_folders) + 2 * RetryBudget + 6
      [] pc = "query" ->
            Len(parse_folders) + 4 + 2 * retryCount + (IF qpc = "call" THEN 1 ELSE 0)
      [] pc = "parse" -> Len(parse_folders) + 3
      [] pc = "save" -> Len(parse_folders) + 2
      [] pc = "fanout" -> Len(parse_folders) + 2 - index
      [] pc = "pace" -> 1
      [] pc = "except" -> 1
      [] OTHER -> 0

\* the steps left to the run, at most
Rank ==
    IF pc = "idle" THEN 0
    ELSE (Len(Matrix) - Len(results)) * PairSteps + StageRank

\* C10: a run with a client visits the pairs of the matrix one after the
\* other, in the order instruments outer, horizons inner, each once, whatever
\* failures the pairs meet, and ends: the pairs finished are always a prefix of
\* the matrix, the pair in progress is the next one, the run is over exactly
\* when all are finished, the capability calls of one query are bounded, no
\* position of a run is without a next step, and every step of a run lowers a
\* natural number, so that a run whose remote calls all return or fail ends.
C10_MatrixTraversal ==
    /\ []MatrixOrder
    /\ [](Rank \in Nat)
    /\ [][pc # "idle" => Rank' < Rank]_vars

\* a run over two instruments is over: six pairs, one of them failed and one
\* with a failed write
C10_Witness ==
    /\ RunDone
    /\ Len(symbols) = 2
    /\ Len(results) = 6
    /\ \E k \in 1..6 : results[k].status = "failed"
    /\ \E k \in 1..6 : results[k].writeErrors > 0


----------------------------------------------------------------------------
(* The extractor. *)

\* a label occurs in a text, in any letter case
Occurs(text, label) == \E k \in 1..Len(text) : Fold(text[k]) = label

LabelsIn(text) == {label \in {"low", "high", "rating"} : Occurs(text, label)}

\* C11: parse_response returns a line with all three fields or None, and
\* raises nothing, for every argument: when one of the three labels does not
\* occur in the text it returns None, and so it does when the argument is not
\* a text.
C11_AllOrNothing ==
    pc = "extracted" =>
        /\ exc = NoError
        /\ raised = 0
        /\ parsed_data = None \/ WellFormedLine(parsed_data)
        /\ response \in NonTexts => parsed_data = None
        /\ (response \notin NonTexts /\ LabelsIn(response) # {"low", "high", "rating"})
              => parsed_data = None
        /\ parsed_data = None => log # <<>>

\* a text with the labels Low and High and their values, and no rating
C11_Witness ==
    /\ pc = "extracted"
    /\ response \notin NonTexts
    /\ LabelsIn(response) = {"low", "high"}
    /\ SearchStrict(response, "low", Digits) # None
    /\ SearchStrict(response, "high", Digits) # None
    /\ parsed_data = None


\* the ways a label is written
Spellings ==
    [low |-> {"Low", "low", "LOW"},
     high |-> {"High", "high", "HIGH"},
     rating |-> {"Rating", "rating", "RATING"}]

\* Low: 2000 High: 4000 Rating: 5 stands at p, its labels in any letter case
FragmentAt(text, p) ==
    /\ p + 19 <= Len(text)
    /\ text[p] \in Spellings.low
    /\ text[p + 8] \in Spellings.high
    /\ text[p + 16] \in Spellings.rating
    /\ SubSeq(text, p + 1, p + 7) = <<":", " ", "2", "0", "0", "0", " ">>
    /\ SubSeq(text, p + 9, p + 15) = <<":", " ", "4", "0", "0", "0", " ">>
    /\ SubSeq(text, p + 17, p + 19) = <<":", " ", "5">>

\* the line of low=2000, high=4000, rating=5
FragmentLine ==
    FormatLine(strftime(clock), <<"2", "0", "0", "0">>, <<"4", "0", "0", "0">>, <<"5">>)

\* a label of any of the three fields, its colon and its value stand before p
LabelledValueBefore(text, p) ==
    \E q \in 1..(p - 1) :
        \/ text[q] \in Spellings.low /\ StrictAt(text, q, Fold(text[q]), Digits)
        \/ text[q] \in Spellings.high /\ StrictAt(text, q, Fold(text[q]), Digits)
        \/ text[q] \in Spellings.rating /\ StrictAt(text, q, Fold(text[q]), RatingDigits)

\* C12 as stated: a text that contains the fragment gives low=2000, high=4000,
\* rating=5 whatever stands before and after the fragment.
C12_RoundTripAnySurroundings ==
    (pc = "extracted" /\ response \notin NonTexts) =>
        \A p \in 1..Len(response) :
            FragmentAt(response, p) => parsed_data = FragmentLine

\* C12, amended: a text that contains the fragment, its labels in any letter
\* case, gives low=2000, high=4000, rating=5 whatever stands after the
\* fragment, and whatever stands before it as long as no label of the three
\* fields with its colon and value stands there.
C12_RoundTripFirstLabelled ==
    (pc = "extracted" /\ response \notin NonTexts) =>
        \A p \in 1..Len(response) :
            (FragmentAt(response, p) /\ ~LabelledValueBefore(response, p))
                => parsed_data = FragmentLine

\* the fragment in capitals between a loose label with a number and a
\* labelled value
C12_Witness ==
    /\ pc = "extracted"
    /\ response \notin NonTexts
    /\ \E p \in 2..Len(response) :
          /\ FragmentAt(response, p)
          /\ response[p] = "LOW"
          /\ ~LabelledValueBefore(response, p)
          /\ Occurs(SubSeq(response, 1, p - 1), "low")
          /\ \E q \in (p + 20)..Len(response) : StrictAt(response, q, "high", Digits)
    /\ parsed_data = FragmentLine


----------------------------------------------------------------------------
(* Delays. *)

\* the positions, in the log of the pair, of its capability calls
CallsAt == {k \in 1..Len(log) : log[k].level = "PRINT"}

\* the positions of its inter-call delays
PacesAt ==
    {k \in 1..Len(log) : log[k] = Entry("SLEEP", "analyze_symbol_timeperiod", PaceDelay)}

\* the positions of its backoff delays
BackoffsAt ==
    {k \in 1..Len(log) : log[k].level = "SLEEP" /\ log[k].msg = "query_anthropic"}

\* C13: when a pair has ended, with a response and a line, with a response and
\* no line, or with its retries exhausted, the inter-call delay has been taken
\* after the last capability call of the pair, so that it lies before the
\* first call of the next pair.
C13_PacedAfterEveryPair ==
    (pc = "loop" /\ results # <<>>
        /\ results[Len(results)].error \in {NoError, "APIError"}) =>
        \E s \in PacesAt : \A c \in CallsAt : c < s


----------------------------------------------------------------------------
(* Records once written. *)

IsPrefix(old, new) == Len(old) <= Len(new) /\ SubSeq(new, 1, Len(old)) = old

\* every ledger holds what it held when the pair in progress started, and
\* then what was appended since
LedgersKept ==
    \A n \in DOMAIN snapshot.ledgers :
        n \in DOMAIN ledgers /\ IsPrefix(snapshot.ledgers[n], ledgers[n])

----------------------------------------------------------------------------
(* The order of the steps of one pair. *)

\* the positions, in the log of the pair, of its run-record write
RecordAt ==
    {k \in 1..Len(log) :
        log[k].msg \in {"Full response saved to", "Failed to save full response"}}

\* the positions of its ledger appends
AppendsAt ==
    {k \in 1..Len(log) :
        log[k].msg \in {"Parsed data saved to", "Failed to save parsed data"}}

Stages == {path[k] : k \in 1..Len(path)}

\* C15: within one pair a capability call is made only once the prompt is
\* built; the extraction is made only when the query has returned, and on the
\* text it returned; the run-record write comes before every ledger append;
\* an append is made only when the extraction gave a line; and a pair whose
\* query raised has written nothing, neither run record nor ledger line.
C15_StepOrder ==
    /\ (InPair /\ CallsAt # {}) =>
          /\ "PROMPTED" \in Stages
          /\ prompt = generate_prompt(symbol, time_period)
    /\ (InPair /\ "EXTRACTED" \in Stages) =>
          /\ qpc = "returned"
          /\ response \in Replies
          /\ parsed_data = parse_response(response, clock)
    /\ (InPair /\ "EXTRACTED" \notin Stages) => parsed_data = None /\ RecordAt = {}
    /\ \A a \in AppendsAt : \E r \in RecordAt : r < a
    /\ (InPair /\ AppendsAt # {}) => parsed_data # None
    /\ (InPair /\ ledgers # snapshot.ledgers) => parsed_data # None /\ qpc = "returned"
    /\ pc = "except" =>
          /\ AppendsAt = {} /\ RecordAt = {}
          /\ ledgers = snapshot.ledgers
          /\ fullFiles = snapshot.full
    /\ \A k \in 1..Len(results) :
          results[k].status = "failed" =>
              results[k].parsed = None /\ "EXTRACTED" \notin
                  {results[k].stages[n] : n \in 1..Len(results[k].stages)}

\* a pair has gone through all its steps: three calls, a line, its record and
\* its append
C15_Witness ==
    /\ pc = "pace"
    /\ Cardinality(CallsAt) = 3
    /\ parsed_data # None
    /\ Cardinality(RecordAt) = 1
    /\ Cardinality(AppendsAt) = 1
    /\ ledgers # snapshot.ledgers


----------------------------------------------------------------------------
(* The backoff of one call of query_anthropic. *)

\* C16: in a direct call query_anthropic(prompt, n) the first thing done is a
\* capability call; a backoff delay is taken only right after a failed call
\* and is followed at once by the next call; every call but the first has one
\* backoff delay right before it; all delays have the same length; and a call
\* that has returned or raised after a capability calls has taken a - 1
\* delays, the last of them before its last capability call.
C16_FixedDelayRetry ==
    pc = "direct" =>
        /\ log # <<>> => 1 \in CallsAt
        /\ \A s \in BackoffsAt :
              /\ s > 1
              /\ log[s - 1] = Entry("ERROR", "API query failed", "APIError")
              /\ s < Len(log) => s + 1 \in CallsAt
              /\ log[s].detail = "10"
        /\ \A c \in CallsAt : c > 1 => (c - 1 \in BackoffsAt /\ c - 2 \notin BackoffsAt)
        /\ \A a, b \in BackoffsAt : log[a].detail = log[b].detail
        /\ Cardinality(CallsAt) = calls
        /\ Cardinality(BackoffsAt) = sleeps
        /\ qpc \in {"returned", "raised", "sleep"} =>
              /\ sleeps = calls - 1
              /\ \A s \in BackoffsAt : \E c \in CallsAt : s < c
        /\ qpc = "call" => sleeps = calls

\* a call that raised after five capability calls and four delays
C16_Witness ==
    /\ pc = "direct"
    /\ qpc = "raised"
    /\ exc = "APIError"
    /\ calls = 5
    /\ Cardinality(BackoffsAt) = 4


----------------------------------------------------------------------------
(* Cancellation. *)

\* C17: an interrupt during a backoff delay, during the inter-call delay or
\* between two pairs ends run_daily_analysis at once: the step of the interrupt
\* changes no file, starts no pair and makes no capability call, and no step
\* follows it, so the files written until then stay as they are.
C17_Cancellation ==
    /\ [](pc = "interrupted" => exc = "KeyboardInterrupt")
    /\ [][ /\ (exc' = "KeyboardInterrupt" /\ exc # "KeyboardInterrupt") =>
                /\ pc' = "interrupted"
                /\ UNCHANGED <<fileVars, calls, sleeps, i, j, results, log, runs>>
           /\ pc # "interrupted"
           /\ exc # "KeyboardInterrupt" ]_vars

\* the interrupt came during the inter-call delay of the second pair: its
\* record and its ledger line are written, the third pair was not started
C17_Witness ==
    /\ pc = "interrupted"
    /\ Len(results) = 1
    /\ i = 1 /\ j = 2
    /\ fullFiles # snapshot.full
    /\ ledgers # snapshot.ledgers
    /\ Cardinality(DOMAIN fullFiles) = 2


----------------------------------------------------------------------------
(* What is logged of an attempt. *)

\* the budgets a call can have left, as they would be formatted
Countdowns == {ToString(n) : n \in 0..MaxRetryArg}

\* the entries of app.log that follow the capability call at c and come before
\* the next one
LoggedFor(c) ==
    {k \in (c + 1)..Len(log) :
        /\ log[k].level \in {"INFO", "WARNING", "ERROR"}
        /\ \A c2 \in CallsAt : ~(c < c2 /\ c2 < k)}

\* C18: every capability call of query_anthropic, once it has returned or
\* raised, has an entry in the log, and that entry carries the retry budget
\* that was left.
C18_AttemptsLogged ==
    (pc = "direct" /\ qpc \in {"sleep", "returned", "raised"}) =>
        \A c \in CallsAt :
            \E k \in LoggedFor(c) : log[k].detail \in Countdowns


----------------------------------------------------------------------------
(* The two passes of the extractor. *)

StrictFields(text) ==
    [low |-> SearchStrict(text, "low", Digits),
     high |-> SearchStrict(text, "high", Digits),
     rating |-> SearchStrict(text, "rating", RatingDigits)]

LooseFields(text) ==
    [low |-> SearchLoose(text, "low", Digits),
     high |-> SearchLoose(text, "high", Digits),
     rating |-> SearchLoose(text, "rating", RatingDigits)]

AllFound(m) == m.low # None /\ m.high # None /\ m.rating # None

LineOf(m) == FormatLine(strftime(clock), m.low, m.high, m.rating)

\* C19: when the strict patterns find all three fields the line is made of
\* the three strict matches; when they miss at least one, the line is made of
\* the three loose matches, also for the fields the strict patterns had found,
\* or there is no line when the loose patterns miss one.
C19_OnePass ==
    (pc = "extracted" /\ response \notin NonTexts) =>
        parsed_data =
            IF AllFound(StrictFields(response)) THEN LineOf(StrictFields(response))
            ELSE IF AllFound(LooseFields(response)) THEN LineOf(LooseFields(response))
            ELSE None

\* the strict pattern of low has a match, that of high has none, and the line
\* holds the loose match of low, which is another number
C19_Witness ==
    /\ pc = "extracted"
    /\ response \notin NonTexts
    /\ StrictFields(response).low # None
    /\ StrictFields(response).high = None
    /\ AllFound(LooseFields(response))
    /\ LooseFields(response).low # StrictFields(response).low
    /\ parsed_data = LineOf(LooseFields(response))

====
